---- MODULE Spec2Model ----
(***************************************************************************)
(* Option_pricer.py: the Black-Scholes-Merton pricer, the input loop       *)
(* get_user_input and main.                                                *)
(*                                                                         *)
(* Python floats are modelled as a decimal floating-point format with the  *)
(* structure of IEEE 754 (signed finite values with gradual underflow,     *)
(* +inf, -inf, NaN, round-half-even) and a reduced width: Prec significant *)
(* digits and exponents Emin..Emax.  A finite value is <<"fin", m, e>>,    *)
(* standing for m * 10^e.                                                  *)
(***************************************************************************)
EXTENDS Integers, Sequences, FiniteSets, TLC

\* ------------------------------------------------------------------------
\* The float format
\* ------------------------------------------------------------------------

\* significant decimal digits of a float
Prec == 2
\* exponent of the unit in the last place of the smallest (subnormal) values
Emin == -16
\* exponent of the unit in the last place of the largest finite values
Emax == 6

NaN == <<"nan", 0, 0>>
PInf == <<"inf", 1, 0>>
NInf == <<"inf", -1, 0>>
Zero == <<"fin", 0, 0>>
Fin(m, e) == <<"fin", m, e>>

IsNaN(a) == a[1] = "nan"
IsInf(a) == a[1] = "inf"
IsFinite(a) == a[1] = "fin"
IsZero(a) == a[1] = "fin" /\ a[2] = 0

Abs(n) == IF n < 0 THEN -n ELSE n
Sgn(n) == IF n < 0 THEN -1 ELSE IF n > 0 THEN 1 ELSE 0

Pow10(k) == <<1, 10, 100, 1000, 10000, 100000, 1000000, 10000000, 100000000, 1000000000>>[k + 1]

\* number of decimal digits of n >= 1
Digits(n) ==
  IF n < 10 THEN 1 ELSE IF n < 100 THEN 2 ELSE IF n < 1000 THEN 3
  ELSE IF n < 10000 THEN 4 ELSE IF n < 100000 THEN 5 ELSE IF n < 1000000 THEN 6
  ELSE IF n < 10000000 THEN 7 ELSE IF n < 100000000 THEN 8
  ELSE IF n < 1000000000 THEN 9 ELSE 10

Inf(s) == IF s < 0 THEN NInf ELSE PInf

\* a rounded significand q (0..100) at exponent e, as a float: 100 carries into
\* the next decade, an exponent above Emax overflows to infinity
Pack(s, q, e) ==
  IF q = 0 THEN Zero
  ELSE IF q = Pow10(Prec) THEN (IF e + 1 > Emax THEN Inf(s) ELSE Fin(s * Pow10(Prec - 1), e + 1))
  ELSE IF e > Emax THEN Inf(s)
  ELSE Fin(s * q, e)

\* the float nearest to s * N * 10^E (N >= 0), ties to even, with gradual
\* underflow below 10^Emin and overflow to infinity above the largest value
RoundFloat(s, N, E) ==
  IF N = 0 THEN Zero
  ELSE
    LET d == Digits(N)
        e0 == IF E + d - Prec < Emin THEN Emin ELSE E + d - Prec
        k == e0 - E
    IN IF k <= 0 THEN Pack(s, N * Pow10(-k), e0)
       ELSE IF k >= 10 THEN Zero
       ELSE LET q == N \div Pow10(k)
                rem == N % Pow10(k)
                half == 5 * Pow10(k - 1)
                up == rem > half \/ (rem = half /\ q % 2 = 1)
            IN Pack(s, IF up THEN q + 1 ELSE q, e0)

Fneg(a) == IF IsNaN(a) THEN NaN ELSE <<a[1], -a[2], a[3]>>

\* -1, 0, 1 as a is below, equal to or above b; neither is NaN
Cmp(a, b) ==
  LET sa == Sgn(a[2])
      sb == Sgn(b[2])
      \* the magnitude's rank: infinities above every finite value
      ea == IF IsInf(a) THEN Emax + 1 ELSE a[3]
      eb == IF IsInf(b) THEN Emax + 1 ELSE b[3]
      ma == Abs(a[2])
      mb == Abs(b[2])
      mag == IF ea < eb THEN -1 ELSE IF ea > eb THEN 1
             ELSE IF ma < mb THEN -1 ELSE IF ma > mb THEN 1 ELSE 0
  IN IF sa # sb THEN (IF sa < sb THEN -1 ELSE 1)
     ELSE IF sa = 0 THEN 0
     ELSE sa * mag

\* Python's comparisons: every comparison with NaN is False
Flt(a, b) == ~IsNaN(a) /\ ~IsNaN(b) /\ Cmp(a, b) < 0
Fle(a, b) == ~IsNaN(a) /\ ~IsNaN(b) /\ Cmp(a, b) <= 0
Fgt(a, b) == Flt(b, a)
Fge(a, b) == Fle(b, a)
Feq(a, b) == ~IsNaN(a) /\ ~IsNaN(b) /\ Cmp(a, b) = 0

\* a + b
Fadd(a, b) ==
  IF IsNaN(a) \/ IsNaN(b) THEN NaN
  ELSE IF IsInf(a) THEN (IF IsInf(b) /\ a[2] # b[2] THEN NaN ELSE a)
  ELSE IF IsInf(b) THEN b
  ELSE IF a[2] = 0 THEN b
  ELSE IF b[2] = 0 THEN a
  ELSE LET hi == IF a[3] >= b[3] THEN a ELSE b
           lo == IF a[3] >= b[3] THEN b ELSE a
           diff == hi[3] - lo[3]
       IN IF diff > 6 THEN hi
          ELSE LET n == hi[2] * Pow10(diff) + lo[2]
               IN RoundFloat(Sgn(n), Abs(n), lo[3])

Fsub(a, b) == Fadd(a, Fneg(b))

\* a * b
Fmul(a, b) ==
  IF IsNaN(a) \/ IsNaN(b) THEN NaN
  ELSE IF IsInf(a) \/ IsInf(b)
       THEN (IF a[2] = 0 \/ b[2] = 0 THEN NaN ELSE Inf(Sgn(a[2]) * Sgn(b[2])))
  ELSE IF a[2] = 0 \/ b[2] = 0 THEN Zero
  ELSE RoundFloat(Sgn(a[2]) * Sgn(b[2]), Abs(a[2]) * Abs(b[2]), a[3] + b[3])

\* a / b for b # 0 (Python raises ZeroDivisionError on a zero divisor before
\* any arithmetic is done)
Fdiv(a, b) ==
  IF IsNaN(a) \/ IsNaN(b) THEN NaN
  ELSE IF IsInf(a) THEN (IF IsInf(b) THEN NaN ELSE Inf(a[2] * Sgn(b[2])))
  ELSE IF IsInf(b) THEN Zero
  ELSE IF a[2] = 0 THEN Zero
  ELSE LET n == Abs(a[2]) * Pow10(4)
           q == n \div Abs(b[2])
           sticky == IF n % Abs(b[2]) = 0 THEN 0 ELSE 1
       IN RoundFloat(Sgn(a[2]) * Sgn(b[2]), 10 * q + sticky, a[3] - b[3] - 5)

\* ------------------------------------------------------------------------
\* The library functions the pricer calls
\* ------------------------------------------------------------------------

RECURSIVE SqrtBisect(_, _, _)
\* the integer square root of n, given lo^2 <= n < hi^2
SqrtBisect(n, lo, hi) ==
  IF hi - lo <= 1 THEN lo
  ELSE LET mid == (lo + hi) \div 2
       IN IF mid * mid <= n THEN SqrtBisect(n, mid, hi) ELSE SqrtBisect(n, lo, mid)

\* math.sqrt raises ValueError below zero
SqrtRaises(a) == ~IsNaN(a) /\ a[2] < 0

\* math.sqrt(a) for a >= 0 or NaN, correctly rounded
Fsqrt(a) ==
  IF IsNaN(a) THEN NaN
  ELSE IF IsInf(a) THEN PInf
  ELSE IF a[2] = 0 THEN Zero
  ELSE LET odd == a[3] % 2 = 1
           e2 == IF odd THEN a[3] - 1 ELSE a[3]
           n == (IF odd THEN 10 * a[2] ELSE a[2]) * Pow10(4)
           root == SqrtBisect(n, 0, 3200)
           sticky == IF root * root = n THEN 0 ELSE 1
       IN RoundFloat(1, 10 * root + sticky, (e2 \div 2) - 3)

\* round(10^5 * ln m) for m = 1..99
LnMant ==
  <<0, 69315, 109861, 138629, 160944, 179176, 194591, 207944, 219722, 230259,
     239790, 248491, 256495, 263906, 270805, 277259, 283321, 289037, 294444, 299573,
     304452, 309104, 313549, 317805, 321888, 325810, 329584, 333220, 336730, 340120,
     343399, 346574, 349651, 352636, 355535, 358352, 361092, 363759, 366356, 368888,
     371357, 373767, 376120, 378419, 380666, 382864, 385015, 387120, 389182, 391202,
     393183, 395124, 397029, 398898, 400733, 402535, 404305, 406044, 407754, 409434,
     411087, 412713, 414313, 415888, 417439, 418965, 420469, 421951, 423411, 424850,
     426268, 427667, 429046, 430407, 431749, 433073, 434381, 435671, 436945, 438203,
     439445, 440672, 441884, 443082, 444265, 445435, 446591, 447734, 448864, 449981,
     451086, 452179, 453260, 454329, 455388, 456435, 457471, 458497, 459512>>

\* round(10^5 * ln 10)
Ln10 == 230259

\* math.log raises ValueError ("math domain error") at and below zero
LogRaises(a) == ~IsNaN(a) /\ a[2] <= 0

\* the C library's log under math.log, for a >= 0 or NaN: -inf at zero (where
\* math.log raises instead), and ln(m * 10^e) = ln m + e * ln 10
Ln(a) ==
  IF IsNaN(a) THEN NaN
  ELSE IF IsInf(a) THEN PInf
  ELSE IF a[2] = 0 THEN NInf
  ELSE LET l == LnMant[a[2]] + a[3] * Ln10
       IN RoundFloat(Sgn(l), Abs(l), -5)

\* sigma**2 raises OverflowError when a finite base overflows
PowRaises(a) == IsFinite(a) /\ IsInf(Fmul(a, a))

\* a**2
Fpow2(a) == Fmul(a, a)

\* round(10^4 * exp(j / 10)) for j = 0..23
ExpTenth ==
  <<10000, 11052, 12214, 13499, 14918, 16487, 18221, 20138, 22255, 24596,
     27183, 30042, 33201, 36693, 40552, 44817, 49530, 54739, 60496, 66859,
     73891, 81662, 90250, 99742>>

\* the finite value a in units of 10^-4, to the nearest unit (|a| < 100)
Fixed4(a) ==
  IF a[3] >= -4 THEN a[2] * Pow10(a[3] + 4)
  ELSE IF a[3] < -6 THEN 0
  ELSE LET p == Pow10(-4 - a[3])
       IN Sgn(a[2]) * ((2 * Abs(a[2]) + p) \div (2 * p))

\* exp of a finite a with |a| < 100: exp(k * ln 10 + j / 10 + g) is
\* 10^k * exp(j / 10) * (1 + g + g^2 / 2 + g^3 / 6)
ExpFinite(a) ==
  LET y == Fixed4(a)
      k == y \div 23026
      f == y % 23026
      j == f \div 1000
      g == f % 1000
      eg == 10000 + g + ((g * g) \div 20000) + ((g * g * g) \div 600000000)
      m == (ExpTenth[j + 1] * eg) \div 10000
  IN RoundFloat(1, m, k - 4)

\* math.exp(a) where it does not raise; it underflows to 0.0 silently
Exp(a) ==
  IF IsNaN(a) THEN NaN
  ELSE IF IsInf(a) THEN (IF a[2] > 0 THEN PInf ELSE Zero)
  ELSE IF a[3] >= 1 THEN (IF a[2] > 0 THEN PInf ELSE Zero)
  ELSE ExpFinite(a)

\* math.exp raises OverflowError ("math range error") when a finite argument's
\* result exceeds the largest float
ExpRaises(a) == IsFinite(a) /\ IsInf(Exp(a))

One == Fin(10, -1)
Half == Fin(50, -2)

\* Phi(-a) for a = 1.0, 1.1, ..., 9.9, rounded to the format (the lower tail,
\* 0.5 * erfc(a / sqrt 2) in scipy's ndtr)
CdfTail ==
  <<<<16, -2>>, <<14, -2>>, <<12, -2>>, <<97, -3>>, <<81, -3>>, <<67, -3>>,
     <<55, -3>>, <<45, -3>>, <<36, -3>>, <<29, -3>>, <<23, -3>>, <<18, -3>>,
     <<14, -3>>, <<11, -3>>, <<82, -4>>, <<62, -4>>, <<47, -4>>, <<35, -4>>,
     <<26, -4>>, <<19, -4>>, <<13, -4>>, <<97, -5>>, <<69, -5>>, <<48, -5>>,
     <<34, -5>>, <<23, -5>>, <<16, -5>>, <<11, -5>>, <<72, -6>>, <<48, -6>>,
     <<32, -6>>, <<21, -6>>, <<13, -6>>, <<85, -7>>, <<54, -7>>, <<34, -7>>,
     <<21, -7>>, <<13, -7>>, <<79, -8>>, <<48, -8>>, <<29, -8>>, <<17, -8>>,
     <<10, -8>>, <<58, -9>>, <<33, -9>>, <<19, -9>>, <<11, -9>>, <<60, -10>>,
     <<33, -10>>, <<18, -10>>, <<99, -11>>, <<53, -11>>, <<28, -11>>, <<15, -11>>,
     <<78, -12>>, <<40, -12>>, <<21, -12>>, <<10, -12>>, <<52, -13>>, <<26, -13>>,
     <<13, -13>>, <<62, -14>>, <<30, -14>>, <<14, -14>>, <<68, -15>>, <<32, -15>>,
     <<15, -15>>, <<68, -16>>, <<31, -16>>, <<14, -16>>, <<6, -16>>, <<3, -16>>,
     <<1, -16>>, <<1, -16>>, <<0, 0>>, <<0, 0>>, <<0, 0>>, <<0, 0>>,
     <<0, 0>>, <<0, 0>>, <<0, 0>>, <<0, 0>>, <<0, 0>>, <<0, 0>>,
     <<0, 0>>, <<0, 0>>, <<0, 0>>, <<0, 0>>, <<0, 0>>, <<0, 0>>>>

\* 10^4 * (Phi(a) - 1/2) for 0 <= a < 1, a in units of 10^-4: the series
\* phi(0) * (a - a^3/6 + a^5/40 - a^7/336 + a^9/3456)
CdfCentre(x) ==
  LET x2 == (x * x) \div 10000
      t3 == (x * x2) \div 10000
      t5 == (t3 * x2) \div 10000
      t7 == (t5 * x2) \div 10000
      t9 == (t7 * x2) \div 10000
      sum == x - (t3 \div 6) + (t5 \div 40) - (t7 \div 336) + (t9 \div 3456)
  IN (sum * 3989 + 5000) \div 10000

\* scipy.stats.norm.cdf: the standard normal distribution function (ndtr).
\* |a| < 1: 1/2 + erf(a / sqrt 2) / 2; otherwise the tail y = erfc(|a| / sqrt 2) / 2,
\* and 1 - y above zero
Cdf(a) ==
  IF IsNaN(a) THEN NaN
  ELSE IF IsInf(a) THEN (IF a[2] > 0 THEN One ELSE Zero)
  ELSE IF a[2] = 0 \/ a[3] <= -2
       THEN LET h == CdfCentre(Fixed4(<<"fin", Abs(a[2]), a[3]>>))
            IN RoundFloat(1, IF a[2] < 0 THEN 5000 - h ELSE 5000 + h, -4)
  ELSE LET p == IF a[3] = -1 THEN CdfTail[Abs(a[2]) - 9] ELSE <<0, 0>>
           y == Fin(p[1], p[2])
       IN IF a[2] > 0 THEN Fsub(One, y) ELSE y

\* ------------------------------------------------------------------------
\* black_scholes_merton
\* ------------------------------------------------------------------------

\* the call returned the pair (call_price, put_price)
Return(branch, call_price, put_price) ==
  [kind |-> "return", exc |-> "none", branch |-> branch,
   call_price |-> call_price, put_price |-> put_price]

\* the call raised the exception exc; there are no prices
Raise(branch, exc) ==
  [kind |-> "raise", exc |-> exc, branch |-> branch,
   call_price |-> NaN, put_price |-> NaN]

\* the branch taken: "if T <= 0"
Degenerate(T) == Fle(T, Zero)

\* the degenerate branch with the comparison of line 23 reversed
IntrinsicReversed(S, K) ==
  IF Flt(S, K) THEN Return("degenerate", Fsub(S, K), Zero)
  ELSE Return("degenerate", Zero, Fsub(K, S))

\* lines 23-29: the intrinsic values
Intrinsic(S, K) ==
  IF Fgt(S, K) THEN Return("degenerate", Fsub(S, K), Zero)
  ELSE Return("degenerate", Zero, Fsub(K, S))

\* lines 37-49: the prices from d1, d2 and the discount factor exp(-r * T)
Prices(S, K, d1, d2, disc) ==
  LET Nd1 == Cdf(d1)
      Nd2 == Cdf(d2)
      N_neg_d1 == Cdf(Fneg(d1))
      N_neg_d2 == Cdf(Fneg(d2))
      call_price == Fsub(Fmul(S, Nd1), Fmul(Fmul(K, disc), Nd2))
      put_price == Fsub(Fmul(Fmul(K, disc), N_neg_d2), Fmul(S, N_neg_d1))
  IN Return("standard", call_price, put_price)

\* lines 32-49, in Python's order of evaluation: S / K, math.log, sigma**2,
\* math.sqrt, the division by sigma * math.sqrt(T), then math.exp(-r * T)
Standard(S, K, T, r, sigma) ==
  IF IsZero(K) THEN Raise("standard", "ZeroDivisionError")
  ELSE IF LogRaises(Fdiv(S, K)) THEN Raise("standard", "ValueError")
  ELSE IF PowRaises(sigma) THEN Raise("standard", "OverflowError")
  ELSE IF SqrtRaises(T) THEN Raise("standard", "ValueError")
  ELSE LET num == Fadd(Ln(Fdiv(S, K)), Fmul(Fadd(r, Fmul(Half, Fpow2(sigma))), T))
           den == Fmul(sigma, Fsqrt(T))
       IN IF IsZero(den) THEN Raise("standard", "ZeroDivisionError")
          ELSE LET d1 == Fdiv(num, den)
                   d2 == Fsub(d1, den)
                   x == Fmul(Fneg(r), T)
               IN IF ExpRaises(x) THEN Raise("standard", "OverflowError")
                  ELSE Prices(S, K, d1, d2, Exp(x))

black_scholes_merton(S, K, T, r, sigma) ==
  IF Degenerate(T) THEN Intrinsic(S, K) ELSE Standard(S, K, T, r, sigma)

\* ------------------------------------------------------------------------
\* float(text): a line of input, a sequence of characters, as a float
\* ------------------------------------------------------------------------

DigitChars == <<"0", "1", "2", "3", "4", "5", "6", "7", "8", "9">>
IsDigit(c) == \E i \in 1..10 : DigitChars[i] = c
DigitVal(c) == (CHOOSE i \in 1..10 : DigitChars[i] = c) - 1

\* the letters of "inf", "infinity", "nan" and the exponent mark, in lower case
Lower(c) ==
  CASE c = "E" -> "e" [] c = "I" -> "i" [] c = "N" -> "n" [] c = "F" -> "f"
    [] c = "A" -> "a" [] c = "T" -> "t" [] c = "Y" -> "y" [] OTHER -> c

RECURSIVE Strip(_)
\* the line without leading and trailing blanks
Strip(s) ==
  IF s = <<>> THEN s
  ELSE IF Head(s) = " " THEN Strip(Tail(s))
  ELSE IF s[Len(s)] = " " THEN Strip(SubSeq(s, 1, Len(s) - 1))
  ELSE s

RECURSIVE IndexOf(_, _, _)
\* the first index from i on at which s holds a character of cs, or 0
IndexOf(s, cs, i) ==
  IF i > Len(s) THEN 0 ELSE IF s[i] \in cs THEN i ELSE IndexOf(s, cs, i + 1)

\* a run of digits, single underscores allowed between two digits
DigitRun(s) ==
  /\ Len(s) > 0
  /\ \A i \in 1..Len(s) : IsDigit(s[i]) \/ s[i] = "_"
  /\ IsDigit(s[1]) /\ IsDigit(s[Len(s)])
  /\ \A i \in 1..(Len(s) - 1) : ~(s[i] = "_" /\ s[i + 1] = "_")

RECURSIVE RunVal(_, _)
\* the number a run of digits spells, after the digits already read as acc
RunVal(s, acc) ==
  IF s = <<>> THEN acc
  ELSE IF Head(s) = "_" THEN RunVal(Tail(s), acc)
  ELSE RunVal(Tail(s), 10 * acc + DigitVal(Head(s)))

\* the digits in a run
RunLen(s) == Cardinality({i \in 1..Len(s) : IsDigit(s[i])})

Parsed(v) == [ok |-> TRUE, v |-> v]
\* float() raises ValueError
NotANumber == [ok |-> FALSE, v |-> NaN]

\* [sign] digits [. digits] [e [sign] digits], [sign] inf, [sign] infinity, [sign] nan
ParseFloat(line) ==
  LET s == Strip(line)
      signed == Len(s) > 0 /\ s[1] \in {"+", "-"}
      sign == IF Len(s) > 0 /\ s[1] = "-" THEN -1 ELSE 1
      body == IF signed THEN Tail(s) ELSE s
      low == [i \in 1..Len(body) |-> Lower(body[i])]
      epos == IndexOf(low, {"e"}, 1)
      mant == IF epos = 0 THEN body ELSE SubSeq(body, 1, epos - 1)
      expo == IF epos = 0 THEN <<>> ELSE SubSeq(body, epos + 1, Len(body))
      dpos == IndexOf(mant, {"."}, 1)
      ip == IF dpos = 0 THEN mant ELSE SubSeq(mant, 1, dpos - 1)
      fp == IF dpos = 0 THEN <<>> ELSE SubSeq(mant, dpos + 1, Len(mant))
      esigned == Len(expo) > 0 /\ expo[1] \in {"+", "-"}
      esign == IF Len(expo) > 0 /\ expo[1] = "-" THEN -1 ELSE 1
      edigits == IF esigned THEN Tail(expo) ELSE expo
      mantOk == /\ ip = <<>> \/ DigitRun(ip)
                /\ fp = <<>> \/ DigitRun(fp)
                /\ ip # <<>> \/ fp # <<>>
      expOk == epos = 0 \/ DigitRun(edigits)
      e == IF epos = 0 THEN 0 ELSE esign * RunVal(edigits, 0)
  IN IF low = <<"i", "n", "f">> \/ low = <<"i", "n", "f", "i", "n", "i", "t", "y">>
       THEN Parsed(Inf(sign))
     ELSE IF low = <<"n", "a", "n">> THEN Parsed(NaN)
     ELSE IF mantOk /\ expOk
       THEN Parsed(RoundFloat(sign, RunVal(fp, RunVal(ip, 0)), e - RunLen(fp)))
     ELSE NotANumber

\* ------------------------------------------------------------------------
\* get_user_input and main
\* ------------------------------------------------------------------------

\* the prompts of main, in order: S, K, T, r, sigma
NFields == 5

\* every prompt left at get_user_input's default min_val of 0.0
MinValDefault(f) == Zero

\* min_val of each prompt: the default 0.0 for S and K, 0.0001 for T, -0.5 for
\* r, 0.0001 for sigma
MinVal(f) == <<Zero, Zero, Fin(10, -5), Fin(-50, -2), Fin(10, -5)>>[f]

\* a range check that also rejects min_val itself
BelowMinOrEqual(v, min) == Fle(v, min)

\* "if value < min_val"
BelowMin(v, min) == Flt(v, min)

RangeError == "Error: Value must be at least min_val."
InvalidError == "Error: Invalid input. Please enter a number."

\* a call of black_scholes_merton that has not been made
NoResult ==
  [kind |-> "none", exc |-> "none", branch |-> "none",
   call_price |-> NaN, put_price |-> NaN]

\* the lines a user types, and how many one prompt is followed through
MaxTries == 2
Lines ==
  { <<"0">>, <<"1">>, <<"1", "e", "-", "4">>, <<" ", ".", "0", "0", "0", "0", "5">>,
    <<"-", "0", ".", "5">>, <<"N", "a", "N">>, <<"i", "n", "f">>, <<"a", "b", "c">> }

VARIABLES
  pc,       \* where the program is
  args,     \* main: the values accepted so far; a direct call: its arguments
  entries,  \* get_user_input: the lines read by the call in progress
  errs,     \* get_user_input: the error messages the call has printed
  value,    \* get_user_input: the value it returns
  shown,    \* main: what it has printed last ("none", "banner", "results")
  calls,    \* the calls of black_scholes_merton made
  result,   \* the outcome of the last call of black_scholes_merton
  prev      \* direct calls: the call before the last, <<args, result>>

vars == <<pc, args, entries, errs, value, shown, calls, result, prev>>

NoCall == <<<<>>, NoResult>>

\* the prompt get_user_input is serving
Field == Len(args) + 1

Init ==
  /\ pc = "start"
  /\ args = <<>>
  /\ entries = <<>>
  /\ errs = <<>>
  /\ value = NaN
  /\ shown = "none"
  /\ calls = 0
  /\ result = NoResult
  /\ prev = NoCall

\* lines 71-72: the banner, then the first prompt
Start ==
  /\ pc = "start"
  /\ pc' = "input"
  /\ shown' = "banner"
  /\ UNCHANGED <<args, entries, errs, value, calls, result, prev>>

\* lines 57-65: one pass of the loop on the line the user typed
EnterLine(line) ==
  /\ pc = "input"
  /\ Len(entries) < MaxTries
  /\ entries' = Append(entries, line)
  /\ LET p == ParseFloat(line)
     IN IF ~p.ok
          THEN /\ errs' = Append(errs, InvalidError)
               /\ UNCHANGED <<pc, value>>
        ELSE IF BelowMin(p.v, MinVal(Field))
          THEN /\ errs' = Append(errs, RangeError)
               /\ UNCHANGED <<pc, value>>
        ELSE /\ pc' = "returning"
             /\ value' = p.v
             /\ UNCHANGED errs
  /\ UNCHANGED <<args, shown, calls, result, prev>>

\* line 63 and lines 75-79: the value is returned and bound; the next prompt,
\* or the pricer after sigma
ReturnValue ==
  /\ pc = "returning"
  /\ args' = Append(args, value)
  /\ pc' = IF Len(args) + 1 = NFields THEN "call" ELSE "input"
  /\ entries' = <<>>
  /\ errs' = <<>>
  /\ value' = NaN
  /\ UNCHANGED <<shown, calls, result, prev>>

\* line 82: the call; an exception it raises ends the program with a traceback
CallPricer ==
  /\ pc = "call"
  /\ LET res == black_scholes_merton(args[1], args[2], args[3], args[4], args[5])
     IN /\ result' = res
        /\ pc' = IF res.kind = "raise" THEN "crashed" ELSE "print"
  /\ calls' = calls + 1
  /\ UNCHANGED <<args, entries, errs, value, shown, prev>>

\* lines 85-95: the results
PrintResults ==
  /\ pc = "print"
  /\ shown' = "results"
  /\ pc' = "done"
  /\ UNCHANGED <<args, entries, errs, value, calls, result, prev>>

Next ==
  \/ Start
  \/ \E line \in Lines : EnterLine(line)
  \/ ReturnValue
  \/ CallPricer
  \/ PrintResults

Spec == Init /\ [][Next]_vars

\* ------------------------------------------------------------------------
\* Direct calls of black_scholes_merton
\* ------------------------------------------------------------------------

\* the arguments of the direct calls
SpotValues == {Fin(-10, -1), Zero, Fin(10, -1), Fin(20, -1)}
StrikeValues == {Fin(-10, -1), Zero, Fin(10, -1), Fin(20, -1), Fin(99, Emax)}
TimeValues == {Fin(-10, -1), Zero, Fin(10, -15), Fin(10, -1), Fin(10, 3)}
RateValues == {Fin(-50, -2), Zero, Fin(50, -3)}
SigmaValues == {Fin(-20, -2), Zero, Fin(10, -11), Fin(10, 2)}

InitCall ==
  /\ pc = "direct"
  /\ args \in {<<S, K, T, r, sigma>> :
                 S \in SpotValues, K \in StrikeValues, T \in TimeValues,
                 r \in RateValues, sigma \in SigmaValues}
  /\ entries = <<>>
  /\ errs = <<>>
  /\ value = NaN
  /\ shown = "none"
  /\ calls = 0
  /\ result = NoResult
  /\ prev = NoCall

\* black_scholes_merton(S, K, T, r, sigma)
DirectCall ==
  /\ pc = "direct"
  /\ result = NoResult
  /\ result' = black_scholes_merton(args[1], args[2], args[3], args[4], args[5])
  /\ UNCHANGED <<pc, args, entries, errs, value, shown, calls, prev>>

\* the caller's next call: another spot price, the other arguments as before
VarySpot(S) ==
  /\ pc = "direct"
  /\ result # NoResult
  /\ S # args[1]
  /\ prev' = <<args, result>>
  /\ args' = [args EXCEPT ![1] = S]
  /\ result' = NoResult
  /\ UNCHANGED <<pc, entries, errs, value, shown, calls>>

\* the caller's next call: another strike price, the other arguments as before
VaryStrike(K) ==
  /\ pc = "direct"
  /\ result # NoResult
  /\ K # args[2]
  /\ prev' = <<args, result>>
  /\ args' = [args EXCEPT ![2] = K]
  /\ result' = NoResult
  /\ UNCHANGED <<pc, entries, errs, value, shown, calls>>

NextCall ==
  \/ DirectCall
  \/ \E S \in SpotValues : VarySpot(S)
  \/ \E K \in StrikeValues : VaryStrike(K)

SpecCall == InitCall /\ [][NextCall]_vars

\* ------------------------------------------------------------------------
\* Properties
\* ------------------------------------------------------------------------

\* a direct call has been made and its outcome is in result
Called == pc = "direct" /\ result.kind # "none"
Returned == Called /\ result.kind = "return"

\* Python's max(a, b)
PyMax(a, b) == IF Fgt(b, a) THEN b ELSE a

\* |a|
Fabs(a) == IF IsNaN(a) THEN NaN ELSE <<a[1], Abs(a[2]), a[3]>>

\* the caller's side of the contract: S > 0, K > 0, and sigma > 0 where T > 0
ValidArgs(a) ==
  /\ IsFinite(a[1]) /\ Fgt(a[1], Zero)
  /\ IsFinite(a[2]) /\ Fgt(a[2], Zero)
  /\ IsFinite(a[3]) /\ IsFinite(a[4]) /\ IsFinite(a[5])
  /\ Fle(a[3], Zero) \/ (Fgt(a[3], Zero) /\ Fgt(a[5], Zero))

\* C1: a call with T <= 0 returns exactly (max(S - K, 0), max(K - S, 0)), for
\* all real S, K, r and sigma: (S - K, 0) when S > K, otherwise (0, K - S), and
\* (0, 0) when S == K.
IntrinsicValueAtExpiry ==
  (Called /\ Fle(args[3], Zero) /\ IsFinite(args[1]) /\ IsFinite(args[2])) =>
    /\ result.kind = "return"
    /\ result.call_price = PyMax(Fsub(args[1], args[2]), Zero)
    /\ result.put_price = PyMax(Fsub(args[2], args[1]), Zero)
    /\ Fgt(args[1], args[2]) =>
         result.call_price = Fsub(args[1], args[2]) /\ result.put_price = Zero
    /\ ~Fgt(args[1], args[2]) =>
         result.call_price = Zero /\ result.put_price = Fsub(args[2], args[1])
    /\ Feq(args[1], args[2]) => result.call_price = Zero /\ result.put_price = Zero

\* a call at T = 0 with S == K > 0 has returned (0, 0)
IntrinsicTieWitness ==
  /\ Returned /\ IsZero(args[3])
  /\ Feq(args[1], args[2]) /\ Fgt(args[1], Zero)
  /\ result.branch = "degenerate"
  /\ result.call_price = Zero /\ result.put_price = Zero

\* 1e-8
ParityTolerance == Fin(10, -9)

\* C2: put-call parity: for valid S > 0, K > 0, T > 0, sigma > 0 and any r, the
\* returned pair satisfies |(call - put) - (S - K * exp(-r * T))| <= 1e-8.
PutCallParity ==
  (Returned /\ ValidArgs(args) /\ Fgt(args[3], Zero)) =>
    Fle(Fabs(Fsub(Fsub(result.call_price, result.put_price),
                  Fsub(args[1], Fmul(args[2], Exp(Fmul(Fneg(args[4]), args[3])))))),
        ParityTolerance)

\* C3: non-negativity: for valid inputs both returned prices are >= 0.
PricesNonNegative ==
  (Returned /\ ValidArgs(args)) =>
    Fge(result.call_price, Zero) /\ Fge(result.put_price, Zero)

\* C5: with T > 0 and S <= 0 or K <= 0 the call signals a domain error: it
\* raises from the logarithm or the division, or returns not-a-number, instead
\* of an ordinary pair of finite prices.
DomainErrorOnNonPositive ==
  (Called /\ Fgt(args[3], Zero) /\ (Fle(args[1], Zero) \/ Fle(args[2], Zero))) =>
    \/ result.kind = "raise" /\ result.exc \in {"ValueError", "ZeroDivisionError"}
    \/ result.kind = "return" /\ (IsNaN(result.call_price) \/ IsNaN(result.put_price))

\* the call before the last and the last both returned prices for valid inputs
BothReturned ==
  /\ Returned /\ prev # NoCall
  /\ prev[2].kind = "return"
  /\ ValidArgs(args) /\ ValidArgs(prev[1])

\* C6: monotonicity: the other arguments fixed, the call price is non-decreasing
\* in S and non-increasing in K, the put price non-increasing in S and
\* non-decreasing in K, in both branches.
PricesMonotone ==
  BothReturned =>
    /\ (prev[1][2] = args[2] /\ Fle(prev[1][1], args[1])) =>
         /\ Fle(prev[2].call_price, result.call_price)
         /\ Fge(prev[2].put_price, result.put_price)
    /\ (prev[1][1] = args[1] /\ Fle(prev[1][2], args[2])) =>
         /\ Fge(prev[2].call_price, result.call_price)
         /\ Fle(prev[2].put_price, result.put_price)

\* C8: with T > 0, S > 0 and K > 0, sigma == 0 fails with a division by zero,
\* and no call with sigma > 0 divides by zero.
DivisionByZeroOnlyAtZeroSigma ==
  (/\ Called /\ Fgt(args[3], Zero) /\ IsFinite(args[3])
   /\ IsFinite(args[1]) /\ Fgt(args[1], Zero)
   /\ IsFinite(args[2]) /\ Fgt(args[2], Zero)) =>
    /\ IsZero(args[5]) => result.kind = "raise" /\ result.exc = "ZeroDivisionError"
    /\ Fgt(args[5], Zero) => ~(result.kind = "raise" /\ result.exc = "ZeroDivisionError")

\* C4: when main calls black_scholes_merton, each of the five arguments is a
\* finite number not below its prompt's minimum.
ShellSuppliesFiniteValidArgs ==
  (pc = "call" \/ calls > 0) =>
    \A f \in 1..NFields : IsFinite(args[f]) /\ Fge(args[f], MinVal(f))

\* C7: through main the pricer never takes the degenerate branch T <= 0.
InteractiveNeverDegenerate ==
  /\ pc = "call" => ~Degenerate(args[3])
  /\ calls > 0 => result.branch = "standard"

\* main has called the pricer with T at the prompt's minimum, 0.0001
MinimumTimeWitness ==
  /\ calls > 0 /\ result.branch = "standard"
  /\ args[3] = MinVal(3)

Numeric(line) == ParseFloat(line).ok

\* C9: get_user_input is a reprompt loop: each non-numeric entry prints the
\* invalid-input error, each numeric entry below min_val prints the range error,
\* both prompt again and neither raises; the value returned is the first entry
\* that is numeric and not below min_val (min_val itself is accepted).
RepromptLoop ==
  /\ pc \in {"input", "returning"} =>
       /\ \A i \in 1..Len(errs) :
            IF Numeric(entries[i])
              THEN Flt(ParseFloat(entries[i]).v, MinVal(Field)) /\ errs[i] = RangeError
              ELSE errs[i] = InvalidError
       /\ pc = "input" => Len(entries) = Len(errs)
       /\ pc = "returning" =>
            /\ Len(entries) = Len(errs) + 1
            /\ Numeric(entries[Len(entries)])
            /\ value = ParseFloat(entries[Len(entries)]).v
            /\ ~Flt(value, MinVal(Field))
  /\ pc = "crashed" => calls = 1 /\ result.kind = "raise"

\* get_user_input returns min_val itself after a rejected entry
RepromptWitness ==
  /\ pc = "returning"
  /\ Len(errs) = 1 /\ Len(entries) = 2
  /\ value = MinVal(Field) /\ value # Zero

\* C10: a round completes normally: the fields are read in the order S, K, T,
\* r, sigma, the pricer is called once, after all five are accepted, the
\* results are printed after the call, and no run ends in an error raised by
\* the pricer.
RoundCompletesNormally ==
  /\ pc # "crashed"
  /\ calls <= 1
  /\ calls = 1 => Len(args) = NFields
  /\ shown = "results" => calls = 1 /\ result.kind = "return"
  /\ pc = "done" => shown = "results"

====
